---- MODULE Spec2Model ----
(***************************************************************************)
(* Model of the OWON VDS6104 driver (src/VDS6104): the value-quantization  *)
(* functions of scale.py and the setters of owon_vds6104.py that use them. *)
(*                                                                         *)
(* Numbers.  Every physical quantity (seconds, volts) is an exact decimal  *)
(* counted in ticks of 1e-10, so 1e-9 is 10 ticks and 100 is 10^12 ticks.  *)
(* A number is a pair <<hi, lo>> standing for hi * Base + lo with          *)
(* 0 <= lo < Base; a negative number has hi < 0.  Python's binary floats   *)
(* are modelled by these exact decimals: a decimal literal such as '5e-3'  *)
(* parses to the decimal it denotes.                                       *)
(*                                                                         *)
(* Specifications.  Spec runs one operation at a time to its end (pc,      *)
(* call, ret, written).  SpecThreads and SpecLoop run the scale.py         *)
(* functions statement by statement in threads (frames, heap), SpecDriver  *)
(* runs measure and capture of several threads on one driver object, with  *)
(* written as the stream of messages the instrument receives.              *)
(***************************************************************************)
EXTENDS Integers, Sequences, FiniteSets, TLC

VARIABLES pc, call, ret, written, frames, heap

vars == <<pc, call, ret, written, frames, heap>>

\* ------------------------------------------------------------------ bounds
\* Largest number of samples in a fetched waveform
MaxSamples == 2

\* Number of threads that call the scale.py functions concurrently
NumThreads == 2

\* Largest decimal exponent (in ticks) of the ranges and targets drawn for
\* the direct calls of the scale.py functions.
MaxExp == 2

\* ------------------------------------------------------- decimal arithmetic
Base == 10^6

Zero == <<0, 0>>

FromInt(n) == <<n \div Base, n % Base>>

Sub(a, b) ==
    LET l == a[2] - b[2]
    IN  IF l < 0 THEN <<a[1] - b[1] - 1, l + Base>> ELSE <<a[1] - b[1], l>>

IsNeg(a) == a[1] < 0

\* abs(x)
Abs(a) == IF IsNeg(a) THEN Sub(Zero, a) ELSE a

Lt(a, b) == a[1] < b[1] \/ (a[1] = b[1] /\ a[2] < b[2])

Le(a, b) == Lt(a, b) \/ a = b

Mul10(a) == <<a[1] * 10 + (a[2] * 10) \div Base, (a[2] * 10) % Base>>

Div10(a) == <<a[1] \div 10, ((a[1] % 10) * Base + a[2]) \div 10>>

\* float('{m}e{e}'): the decimal m * 10^e (e counted in ticks, e >= 0)
RECURSIVE FromSci(_, _)
FromSci(m, e) == IF e = 0 THEN FromInt(m) ELSE Mul10(FromSci(m, e - 1))

\* '{0:e}'.format(x)[0] for x >= 0: the leading significant digit
RECURSIVE SciLead(_)
SciLead(a) == IF a[1] = 0 /\ a[2] < 10 THEN a[2] ELSE SciLead(Div10(a))

\* int('{0:e}'.format(x).split('e')[1]) for x >= 0, counted in ticks
RECURSIVE SciExp(_)
SciExp(a) == IF a[1] = 0 /\ a[2] < 10 THEN 0 ELSE 1 + SciExp(Div10(a))

\* IndexOf falling back to the first position when d is absent
IndexOfOrFirst(d, MANTISSA) ==
    IF \E i \in 1..Len(MANTISSA) : MANTISSA[i] = d
    THEN CHOOSE i \in 1..Len(MANTISSA) :
            MANTISSA[i] = d /\ \A j \in 1..(i - 1) : MANTISSA[j] # d
    ELSE 1

\* MANTISSA.index(d): the first 1-based position of d, 0 when d is absent
\* (list.index raises ValueError)
IndexOf(d, MANTISSA) ==
    IF \E i \in 1..Len(MANTISSA) : MANTISSA[i] = d
    THEN CHOOSE i \in 1..Len(MANTISSA) :
            MANTISSA[i] = d /\ \A j \in 1..(i - 1) : MANTISSA[j] # d
    ELSE 0

\* ----------------------------------------------------------------- scale.py
\* CalcStep with the exponent left alone when the mantissas wrap
CalcStepFixedExponent(st, MANTISSA) ==
    LET idx == (st.idx_mantissa + 1) % Len(MANTISSA)
    IN  [value |-> FromSci(MANTISSA[idx + 1], st.exponent),
         idx_mantissa |-> idx, exponent |-> st.exponent,
         values_valid |-> Append(st.values_valid, st.value)]

\* CalcStep with the exponent incremented one step before the wrap
CalcStepEarlyExponent(st, MANTISSA) ==
    LET idx == (st.idx_mantissa + 1) % Len(MANTISSA)
        ex  == IF idx = Len(MANTISSA) - 1 THEN st.exponent + 1
               ELSE st.exponent
    IN  [value |-> FromSci(MANTISSA[idx + 1], ex), idx_mantissa |-> idx,
         exponent |-> ex, values_valid |-> Append(st.values_valid, st.value)]

\* The next state of the local variables of calc_valid_inputs after one pass
\* of its while body; idx_mantissa is 0-based as in the source.
CalcStep(st, MANTISSA) ==
    LET idx == (st.idx_mantissa + 1) % Len(MANTISSA)
        ex  == IF idx = 0 THEN st.exponent + 1 ELSE st.exponent
    IN  [value |-> FromSci(MANTISSA[idx + 1], ex), idx_mantissa |-> idx,
         exponent |-> ex, values_valid |-> Append(st.values_valid, st.value)]

\* CalcLoop with the loop condition value < MAX_VAL
RECURSIVE CalcLoopExclusive(_, _, _)
CalcLoopExclusive(st, MAX_VAL, MANTISSA) ==
    IF ~Lt(st.value, MAX_VAL)
    THEN st.values_valid
    ELSE CalcLoopExclusive(CalcStep(st, MANTISSA), MAX_VAL, MANTISSA)

\* The while loop of calc_valid_inputs from the local variables st on
RECURSIVE CalcLoop(_, _, _)
CalcLoop(st, MAX_VAL, MANTISSA) ==
    IF ~Le(st.value, MAX_VAL)
    THEN st.values_valid
    ELSE CalcLoop(CalcStep(st, MANTISSA), MAX_VAL, MANTISSA)

\* calc_valid_inputs with the first value rebuilt from the leading digit and
\* the exponent of MIN_VAL instead of MIN_VAL itself
calc_valid_inputs_rebuilt(MIN_VAL, MAX_VAL, MANTISSA) ==
    LET found == IF IsNeg(MIN_VAL) THEN 0
                 ELSE IndexOf(SciLead(MIN_VAL), MANTISSA)
    IN  IF found = 0
        THEN [raised |-> TRUE, values |-> <<>>]
        ELSE [raised |-> FALSE,
              values |-> CalcLoop(
                  [value |-> FromSci(MANTISSA[found], SciExp(MIN_VAL)),
                   idx_mantissa |-> found - 1, exponent |-> SciExp(MIN_VAL),
                   values_valid |-> <<>>], MAX_VAL, MANTISSA)]

\* calc_valid_inputs taking the leading digit and the exponent of |MIN_VAL|
calc_valid_inputs_abs(MIN_VAL, MAX_VAL, MANTISSA) ==
    LET found == IndexOf(SciLead(Abs(MIN_VAL)), MANTISSA)
    IN  IF found = 0
        THEN [raised |-> TRUE, values |-> <<>>]
        ELSE [raised |-> FALSE,
              values |-> CalcLoop(
                  [value |-> MIN_VAL, idx_mantissa |-> found - 1,
                   exponent |-> SciExp(Abs(MIN_VAL)), values_valid |-> <<>>],
                  MAX_VAL, MANTISSA)]

\* calc_valid_inputs(MIN_VAL, MAX_VAL, MANTISSA): raised is TRUE when line 34
\* raises ValueError (the first character of the formatted MIN_VAL is '-', or
\* the leading digit is not in MANTISSA).
calc_valid_inputs(MIN_VAL, MAX_VAL, MANTISSA) ==
    LET found == IF IsNeg(MIN_VAL) THEN 0
                 ELSE IndexOf(SciLead(MIN_VAL), MANTISSA)
    IN  IF found = 0
        THEN [raised |-> TRUE, values |-> <<>>]
        ELSE [raised |-> FALSE,
              values |-> CalcLoop(
                  [value |-> MIN_VAL, idx_mantissa |-> found - 1,
                   exponent |-> SciExp(MIN_VAL), values_valid |-> <<>>],
                  MAX_VAL, MANTISSA)]

\* The local variables of get_closest_value after the two assignments of
\* its for body for element value; st.first_run = 0 before the first element.
ScanStep(st, value, input_value) ==
    LET delta == Abs(Sub(value, input_value))
        md    == IF st.first_run = 0 THEN delta ELSE st.min_delta
        upd   == Lt(delta, md)
    IN  [first_run |-> 1, delta |-> delta,
         min_delta |-> IF upd THEN delta ELSE md,
         lowest_value |-> IF upd THEN value ELSE st.lowest_value]

\* ScanLoop without the return on delta == 0
RECURSIVE ScanLoopNoReturn(_, _, _, _)
ScanLoopNoReturn(possible_values, i, input_value, st) ==
    IF i > Len(possible_values)
    THEN [value |-> st.lowest_value, scanned |-> i - 1]
    ELSE ScanLoopNoReturn(possible_values, i + 1, input_value,
                          ScanStep(st, possible_values[i], input_value))

\* The for loop of get_closest_value from element i on.  scanned counts the
\* elements the loop has examined when it returns.
RECURSIVE ScanLoop(_, _, _, _)
ScanLoop(possible_values, i, input_value, st) ==
    IF i > Len(possible_values)
    THEN [value |-> st.lowest_value, scanned |-> i - 1]
    ELSE LET st1 == ScanStep(st, possible_values[i], input_value)
         IN  IF st1.delta = Zero
             THEN [value |-> possible_values[i], scanned |-> i]
             ELSE ScanLoop(possible_values, i + 1, input_value, st1)

\* get_closest_value with lowest_value initialised to MAX
get_closest_value_from_max(input_value, MIN, MAX, MANTISSA) ==
    LET possible_values == calc_valid_inputs(MIN, MAX, MANTISSA)
    IN  IF possible_values.raised
        THEN [raised |-> TRUE, value |-> Zero, scanned |-> 0]
        ELSE LET r == ScanLoop(possible_values.values, 1, input_value,
                               [first_run |-> 0, delta |-> Zero,
                                min_delta |-> Zero, lowest_value |-> MAX])
             IN  [raised |-> FALSE, value |-> r.value, scanned |-> r.scanned]

get_closest_value(input_value, MIN, MAX, MANTISSA) ==
    LET possible_values == calc_valid_inputs(MIN, MAX, MANTISSA)
    IN  IF possible_values.raised
        THEN [raised |-> TRUE, value |-> Zero, scanned |-> 0]
        ELSE LET r == ScanLoop(possible_values.values, 1, input_value,
                               [first_run |-> 0, delta |-> Zero,
                                min_delta |-> Zero, lowest_value |-> Zero])
             IN  [raised |-> FALSE, value |-> r.value, scanned |-> r.scanned]

\* validate_input(target, vals_valid): min(vals_valid, key=|x - target|), the
\* first element of minimal key; min() of an empty list raises ValueError.
validate_input(target, vals_valid) ==
    IF vals_valid = <<>>
    THEN [raised |-> TRUE, value |-> Zero]
    ELSE [raised |-> FALSE,
          value |-> vals_valid[
              CHOOSE i \in 1..Len(vals_valid) :
                  /\ \A j \in 1..Len(vals_valid) :
                        Le(Abs(Sub(vals_valid[i], target)),
                           Abs(Sub(vals_valid[j], target)))
                  /\ \A j \in 1..(i - 1) :
                        Lt(Abs(Sub(vals_valid[i], target)),
                           Abs(Sub(vals_valid[j], target)))]]

\* max(vals_valid) of a non-empty list
Max(vals_valid) ==
    vals_valid[CHOOSE i \in 1..Len(vals_valid) :
                  \A j \in 1..Len(vals_valid) : Le(vals_valid[j], vals_valid[i])]

\* check_index(target, dataset): dataset.index(target), 0-based as in the
\* source; -1 stands for the ValueError of an absent target.
check_index(target, dataset) == IndexOf(target, dataset) - 1

\* get_val_ceil(target, validated, vals_valid).  none is TRUE when the call
\* falls off the end of the function and returns None: the elif branch has no
\* return for target <= max(vals_valid), and the else branch is taken only
\* when neither target <= validated nor target > validated.
get_val_ceil(target, validated, vals_valid) ==
    IF Le(target, validated)
    THEN [raised |-> FALSE, none |-> FALSE, value |-> validated]
    ELSE IF Lt(validated, target)
    THEN IF Lt(Max(vals_valid), target)
         THEN [raised |-> FALSE, none |-> FALSE, value |-> validated]
         ELSE [raised |-> FALSE, none |-> TRUE, value |-> Zero]
    ELSE LET i == check_index(validated, vals_valid) + 1
         IN  IF i = 0 \/ i >= Len(vals_valid)
             THEN [raised |-> TRUE, none |-> FALSE, value |-> Zero]
             ELSE [raised |-> FALSE, none |-> FALSE, value |-> vals_valid[i + 1]]

\* ---------------------------------------------------------- owon_vds6104.py
\* Exponent of one tick: a number n stands for the quantity n * 10^TickExp.
TickExp == 0 - 10

\* OwonVDS6104.__init__
mantissa == <<1, 2, 5>>

timebase_min == FromSci(1, 1)       \* 1e-9

timebase_max == FromSci(100, 10)    \* 100

scale_min == FromSci(2, 7)          \* 2e-3

scale_max == FromSci(5, 10)         \* 5

channel_list == {1, 2, 3, 4}

\* time_dec without its last three entries 1, 2, 5
time_dec_short ==
    {FromSci(m, e) : m \in {1, 2, 5}, e \in {1, 4, 7}}

\* time_dec of the timebase setter
time_dec ==
    {FromSci(m, e) : m \in {1, 2, 5}, e \in {1, 4, 7, 10}}

\* SI scale factors quantiphy renders with, by exponent \div 3
SIPrefix(g) ==
    CASE g = -4 -> "p" [] g = -3 -> "n" [] g = -2 -> "u" [] g = -1 -> "m"
      [] g = 0 -> "" [] g = 1 -> "k" [] OTHER -> "?"

\* Quantity.render(strip_zeros, prec) of a quantity whose value is 0 or has
\* one significant digit (every value get_closest_value returns over a range
\* whose minimum has one significant digit).  The text is the sequence of its
\* pieces: the digits before the point, under prec=1 and strip_zeros=False
\* the point and one fractional digit, the spacer, the SI scale factor and
\* the units.
render(real, units, padded) ==
    LET r    == SciExp(real) + TickExp
        g    == IF real = Zero THEN 0 ELSE r \div 3
        num  == IF real = Zero THEN 0 ELSE SciLead(real) * 10^(r % 3)
        text == IF padded
                THEN <<[k |-> "int", n |-> num], [k |-> "point"],
                       [k |-> "frac", n |-> 0]>>
                ELSE <<[k |-> "int", n |-> num]>>
    IN  text \o <<[k |-> "space"], [k |-> "prefix", s |-> SIPrefix(g)],
                  [k |-> "units", s |-> units]>>

\* str.strip(): drops the spaces at both ends only
RECURSIVE StripEnds(_)
StripEnds(text) ==
    IF text = <<>> THEN <<>>
    ELSE IF Head(text).k = "space" THEN StripEnds(Tail(text))
    ELSE IF text[Len(text)].k = "space"
    THEN StripEnds(SubSeq(text, 1, Len(text) - 1))
    ELSE text

\* "".join(text.split(" ")) and str.replace(' ', ''): both drop the spaces
RECURSIVE StripSpaces(_)
StripSpaces(text) ==
    IF text = <<>> THEN <<>>
    ELSE IF Head(text).k = "space" THEN StripSpaces(Tail(text))
    ELSE <<Head(text)>> \o StripSpaces(Tail(text))

\* The power of ten an SI scale factor stands for
PrefixExp(p) ==
    CASE p = "p" -> -12 [] p = "n" -> -9 [] p = "u" -> -6 [] p = "m" -> -3
      [] p = "" -> 0 [] p = "k" -> 3

\* The magnitude a token carries: its number times its scale factor
Magnitude(token) ==
    LET i == CHOOSE j \in 1..Len(token) : token[j].k = "prefix"
    IN  FromSci(token[1].n, PrefixExp(token[i].s) - TickExp)

\* Selector values.  A Python str is tagged "str"; an Enum member is tagged
\* "enum" with its class and its value, so that two names of one value
\* (Coupling.DC and Coupling.dc) are the same member, as aliases are.
Str(v) == [t |-> "str", cls |-> "", v |-> v]

Member(cls, v) == [t |-> "enum", cls |-> cls, v |-> v]

\* A Python int used as a selector, by its decimal text
Num(v) == [t |-> "int", cls |-> "", v |-> v]

State == {Member("State", v) : v \in {"1", "0"}}

Coupling == {Member("Coupling", v) : v \in {"dc", "ac", "gnd"}}

Measurement ==
    {Member("Measurement", v) :
        v \in {"VMAX", "VMIN", "VPP", "VTOP", "VBASE", "VAMP", "VAVG", "VRMS",
               "CRMS", "OVER", "PRES", "PDUT", "NDUT", "PER", "FREQ", "RTIM",
               "FTIM", "PWID", "NWID", "AREA", "CAR", "PPUL", "NPUL", "REDG",
               "FEDG"}}

Trigger ==
    {Member("Trigger", v) :
        v \in {"EDGE", "VID", "PULS", "SLOP", "CH1", "CH2", "CH3", "CH4",
               "AC", "DC", "HF", "RISE", "FALL"}}

\* str.lower on the strings the model passes as coupling modes
lower(v) ==
    CASE v \in {"ac", "AC", "Ac"} -> "ac"
      [] v \in {"dc", "DC", "dC"} -> "dc"
      [] v \in {"gnd", "GND", "Gnd"} -> "gnd"
      [] v \in {"hf", "HF"} -> "hf"
      [] OTHER -> v

\* The dictionary measure builds, keyed by the value of the Measurement
\* member
function_map ==
    [v \in {"VMAX", "VMIN", "VPP", "VTOP", "VBASE", "VAMP", "VRMS", "CRMS",
            "OVER", "PRES", "PDUT", "NDUT", "PER", "FREQ", "RTIM", "FTIM",
            "PWID", "NWID", "AREA", "CAR", "PPUL", "NPUL", "REDG", "FEDG"}
        |-> v]

\* function in function_map.keys()
InFunctionMap(function) ==
    /\ function.t = "enum"
    /\ function.cls = "Measurement"
    /\ function.v \in DOMAIN function_map

\* str.strip on a reply given as its sequence of characters
RECURSIVE strip(_)
strip(reply) ==
    LET white == {" ", "\n", "\r", "\t"}
    IN  IF reply = <<>> THEN <<>>
        ELSE IF Head(reply) \in white THEN strip(Tail(reply))
        ELSE IF reply[Len(reply)] \in white
        THEN strip(SubSeq(reply, 1, Len(reply) - 1))
        ELSE reply

\* The lists the memory_depth and precision setters test against
available_depths ==
    {Str(v) : v \in {"1K", "10K", "100K", "1M", "10M", "25M", "50M", "100M",
                     "250M"}}

available_precisions == {Num(v) : v \in {"8", "12", "14"}}

\* The smallest gate time of the time_measurement setter, 0.02 seconds
min_measurement_time == FromSci(2, 8)

\* The closed interval of hold times the trig_holdoff setter accepts,
\* 100e-9 to 10 seconds
holdoff_min == FromSci(100, 1)

holdoff_max == FromSci(10, 10)

\* float(hold_time) for a number or a numeric string: both are given by
\* their decimal text '<m>e<e>', e counted in ticks
float(hold_time) == FromSci(hold_time.m, hold_time.e)

\* HoldoffAccepted with the lower end of the interval excluded
HoldoffAcceptedAbove(hold_time) ==
    Lt(holdoff_min, float(hold_time)) /\ Le(float(hold_time), holdoff_max)

\* The condition of the trig_holdoff setter
HoldoffAccepted(hold_time) ==
    Le(holdoff_min, float(hold_time)) /\ Le(float(hold_time), holdoff_max)

\* Waveform arithmetic.  The replies and samples of capture are exact
\* fractions <<n, d>> in lowest terms with d > 0, in seconds, volts and
\* divisions.
RECURSIVE GCD(_, _)
GCD(a, b) == IF b = 0 THEN a ELSE GCD(b, a % b)

Rat(n, d) ==
    LET g == GCD(IF n < 0 THEN -n ELSE n, d)
    IN  <<n \div g, d \div g>>

RatSub(x, y) == Rat(x[1] * y[2] - y[1] * x[2], x[2] * y[2])

RatMul(x, y) == Rat(x[1] * y[1], x[2] * y[2])

\* ADC codes per division, the divisor of capture
ADCPerDiv == 6400

\* DecodeStep with the sample index counted from 1
DecodeStepFromOne(st, value, offset_divisons, scale_voltage, scale_time) ==
    [index |-> st.index + 1,
     volt_wave |-> Append(st.volt_wave,
         RatMul(RatSub(Rat(value, ADCPerDiv), offset_divisons), scale_voltage)),
     time |-> Append(st.time, RatMul(scale_time, Rat(st.index + 1, 1)))]

\* One pass of the for body of capture: the lists after sample value at
\* position st.index of enumerate(adc_wave)
DecodeStep(st, value, offset_divisons, scale_voltage, scale_time) ==
    [index |-> st.index + 1,
     volt_wave |-> Append(st.volt_wave,
         RatMul(RatSub(Rat(value, ADCPerDiv), offset_divisons), scale_voltage)),
     time |-> Append(st.time, RatMul(scale_time, Rat(st.index, 1)))]

\* The for loop of capture over the samples still to decode
RECURSIVE DecodeLoop(_, _, _, _, _)
DecodeLoop(adc_wave, st, offset_divisons, scale_voltage, scale_time) ==
    IF adc_wave = <<>>
    THEN st
    ELSE DecodeLoop(Tail(adc_wave),
                    DecodeStep(st, Head(adc_wave), offset_divisons,
                               scale_voltage, scale_time),
                    offset_divisons, scale_voltage, scale_time)

\* Largest length of a list a stepwise calc_valid_inputs may build: the
\* ranges drawn span fewer than MaxExp + 3 decades of at most three
\* mantissas each
MaxValues == 3 * (MaxExp + 3)

\* Threads and list objects.  frames[t] holds the local variables of the
\* invocation thread t is running, heap[a] the list object at address a.
Threads == 1..NumThreads

Addresses == 1..NumThreads

IdleFrame ==
    [pc |-> "idle", op |-> "none", args |-> <<>>, st |-> <<>>, list |-> 0,
     i |-> 0, scan |-> <<>>, result |-> <<>>]

FreeCell == [used |-> FALSE, items |-> <<>>]

\* Alloc handing every invocation the one list at address 1
AllocShared(h) == 1

\* values_valid = []: the list display creates a new object, at an address
\* no live list has
Alloc(h) ==
    CHOOSE a \in Addresses :
        ~h[a].used /\ \A b \in Addresses : b < a => h[b].used

\* ------------------------------------------------------------------ inputs
Mantissas == {<<1, 2, 5>>, <<1, 3, 10>>, <<2, 5>>, <<1, 2, 3>>}

MinVals ==
    {FromSci(c, e) : c \in {1, 2, 3, 5, 25}, e \in 1..MaxExp}
        \cup {Zero, FromInt(-10)}

MaxVals == {FromSci(c, e) : c \in {1, 2, 5, 7}, e \in 1..(MaxExp + 1)}

Targets ==
    {FromSci(c, e) : c \in {1, 2, 3, 4, 5, 7, 15, 35, 75}, e \in 0..(MaxExp + 1)}
        \cup {Zero, FromInt(-10)}

\* Requested timebases and voltages: the legal steps, values between two
\* steps, and values outside the range on both sides.
Requests ==
    {FromSci(c, e) : c \in {1, 2, 3, 5, 7, 15, 35}, e \in 0..12}
        \cup {Zero, FromInt(-10)}

\* The ranges of the docstring of calc_valid_inputs, of its commented-out
\* calls and of the driver
Examples ==
    {<<FromSci(2, 1), FromSci(10, 10)>>, <<FromSci(2, 7), FromSci(10, 10)>>,
     <<timebase_min, timebase_max>>}

\* Lists of valid inputs for get_val_ceil: the [1, 2, 5, 10, 20, 50] of its
\* docstring (in tenths) and a generated step sequence
ValidLists ==
    {[i \in 1..6 |-> FromSci(mantissa[((i - 1) % 3) + 1], 1 + (i - 1) \div 3)],
     calc_valid_inputs(FromSci(2, 1), FromSci(2, MaxExp + 1), mantissa).values}

\* Targets for get_val_ceil: those of get_closest_value and the 10.1 of the
\* docstring
CeilTargets == Targets \cup {FromInt(101)}

Channels == 0..5

\* Replies of the instrument to capture's queries: the timebase, the
\* vertical scale and the vertical offset in divisions
Periods == {Rat(1, 1000000), Rat(1, 1)}

Scales == {Rat(1, 5), Rat(1, 1), Rat(2, 1)}

Offsets == {Rat(0, 1), Rat(1, 2), Rat(-2, 1)}

RawCodes == {-6400, 0, 3200, 6400}

\* The sequences over S of length at most n
RECURSIVE SeqsUpTo(_, _)
SeqsUpTo(S, n) ==
    IF n = 0 THEN {<<>>}
    ELSE LET shorter == SeqsUpTo(S, n - 1)
         IN  shorter \cup {Append(q, x) : q \in shorter, x \in S}

\* Coupling modes a caller may pass: strings in several letter cases, the
\* Coupling members, and values that are no coupling mode
CouplingModes ==
    {Str(v) : v \in {"ac", "AC", "Ac", "dc", "DC", "dC", "gnd", "GND", "Gnd",
                     "hf", "HF", ""}}
        \cup Coupling \cup {Member("Trigger", "AC"), Member("Trigger", "HF")}

\* Measurement functions a caller may pass
Functions ==
    Measurement \cup {Str("VMAX"), Str("vmax"), Member("Trigger", "RISE")}

\* Trigger modes a caller may pass
TriggerModes ==
    Trigger \cup {Str("EDGE"), Str("edge"), Member("Measurement", "VMAX")}

\* Replies of the instrument to a measurement query
Replies ==
    {<<"1", ".", "5", "V", "\n">>, <<" ", "?", "\r", "\n">>, <<"O", "F", "F">>,
     <<"\n">>}

\* Hold times a caller may pass, as numbers and as numeric strings: the
\* cases of test_trigger_holdoff, both ends of the interval and their
\* neighbours
HoldTimes ==
    {[t |-> t, m |-> h[1], e |-> h[2]] :
        t \in {"num", "str"},
        h \in {<<100, 1>>, <<1, 3>>, <<250, 1>>, <<1, 10>>, <<10, 10>>,
               <<1, 11>>, <<11, 10>>, <<1025, 8>>, <<-25, 10>>, <<-15, 10>>,
               <<0, 0>>, <<99, 1>>, <<999, 0>>, <<1001, 0>>, <<10001, 7>>,
               <<9999, 7>>, <<1, 12>>}}

\* Trigger sources, trigger couplings, memory depths, precisions and gate
\* times a caller may pass
TriggerSources ==
    {Num(v) : v \in {"0", "1", "2", "3", "4", "5"}} \cup Trigger
        \cup {Str("CH1"), Str("1")}

TriggerCouplings ==
    {Str(v) : v \in {"ac", "AC", "dc", "DC", "hf", "HF", "Ac", "gnd"}}
        \cup Trigger

Depths == available_depths \cup {Str("2K"), Str("1k"), Num("1000")}

Precisions == available_precisions \cup {Num("10"), Num("16"), Str("8")}

GateTimes ==
    {FromSci(2, 8), FromSci(1, 8), FromSci(1, 10), FromSci(19999999, 1),
     Zero, FromSci(-1, 10)}

\* The calls a thread may make: ranges with three, two and no values,
\* a leading digit that is no mantissa, a target that is a member and one
\* that is not
ThreadCalls ==
    {[op |-> "calc_valid_inputs", input_value |-> Zero, MIN |-> c[1],
      MAX |-> c[2], MANTISSA |-> c[3]] :
        c \in {<<FromSci(2, 1), FromSci(1, 2), <<1, 2, 5>>>>,
               <<FromSci(1, 1), FromSci(5, 1), <<1, 3, 10>>>>,
               <<FromSci(5, 1), FromSci(2, 1), <<2, 5>>>>,
               <<FromSci(3, 1), FromSci(1, 2), <<1, 2, 5>>>>}}
      \cup
    {[op |-> "get_closest_value", input_value |-> x, MIN |-> FromSci(2, 1),
      MAX |-> FromSci(1, 2), MANTISSA |-> <<1, 2, 5>>] :
        x \in {FromSci(5, 1), FromSci(7, 1)}}

\* The calls of the thread whose loop is followed to its end: every range
\* and mantissa set of the direct calls, and the calls of the threads
LoopCalls ==
    {[op |-> "calc_valid_inputs", input_value |-> Zero, MIN |-> MIN,
      MAX |-> MAX, MANTISSA |-> MANTISSA] :
        MIN \in MinVals, MAX \in MaxVals, MANTISSA \in Mantissas \cup {<<1>>}}
      \cup ThreadCalls

\* The calls of the threads that share one driver object: measure and
\* capture on two valid channels and on an invalid one
DriverCalls ==
    {[op |-> op, channel |-> c, function |-> Member("Measurement", "VMAX")] :
        op \in {"measure", "capture"}, c \in {0, 1, 2}}

\* Replies to the three getters of a capture that runs beside another call
DriverReplies == <<Rat(1, 1000), Rat(2, 1), Rat(1, 2)>>

\* Outcomes of the fetch of a capture that runs beside another call
DriverFetches ==
    {[ok |-> TRUE, data |-> <<3200>>], [ok |-> FALSE, data |-> <<>>]}

\* Outcomes of the binary fetch: a block of samples, or a transport or
\* timeout error raised by the VISA layer
Fetches ==
    {[ok |-> TRUE, data |-> d] : d \in SeqsUpTo(RawCodes, MaxSamples)}
        \cup {[ok |-> FALSE, data |-> <<>>]}

NoCall == [op |-> "none"]

NoRet == [raised |-> FALSE]

\* ------------------------------------------------------------------ actions
Init ==
    /\ pc = "idle"
    /\ call = NoCall
    /\ ret = NoRet
    /\ written = <<>>
    /\ frames = [t \in Threads |-> IdleFrame]
    /\ heap = [a \in Addresses |-> FreeCell]

\* scale.calc_valid_inputs(MIN_VAL, MAX_VAL, MANTISSA)
CallCalcValidInputs ==
    /\ pc = "idle"
    /\ \E range \in (MinVals \X MaxVals) \cup Examples, MANTISSA \in Mantissas :
          /\ call' = [op |-> "calc_valid_inputs", MIN_VAL |-> range[1],
                      MAX_VAL |-> range[2], MANTISSA |-> MANTISSA]
          /\ ret' = calc_valid_inputs(range[1], range[2], MANTISSA)
    /\ pc' = "done"
    /\ UNCHANGED <<frames, heap>>
    /\ UNCHANGED written

\* scale.get_closest_value(input_value, MIN, MAX, MANTISSA)
CallGetClosestValue ==
    /\ pc = "idle"
    /\ \E input_value \in Targets, MIN \in MinVals, MAX \in MaxVals,
          MANTISSA \in Mantissas :
          /\ call' = [op |-> "get_closest_value", input_value |-> input_value,
                      MIN |-> MIN, MAX |-> MAX, MANTISSA |-> MANTISSA]
          /\ ret' = get_closest_value(input_value, MIN, MAX, MANTISSA)
    /\ pc' = "done"
    /\ UNCHANGED <<frames, heap>>
    /\ UNCHANGED written

\* OwonVDS6104.timebase = time_base
SetTimebase ==
    /\ pc = "idle"
    /\ \E time_base \in Requests :
          LET snapped == get_closest_value(time_base, timebase_min,
                                           timebase_max, mantissa)
              text    == render(snapped.value, "s", snapped.value \in time_dec)
          IN  /\ call' = [op |-> "timebase", time_base |-> time_base]
              /\ ret' = [raised |-> snapped.raised]
              /\ written' = IF snapped.raised THEN <<>>
                            ELSE <<[cmd |-> ":HORI:SCAL", channel |-> 0,
                                    token |-> StripSpaces(text)]>>
    /\ pc' = "done"
    /\ UNCHANGED <<frames, heap>>

\* OwonVDS6104.set_scale(channel, voltage)
SetScale ==
    /\ pc = "idle"
    /\ \E channel \in Channels, voltage \in Requests :
          LET snapped == get_closest_value(voltage, scale_min, scale_max,
                                           mantissa)
              text    == render(snapped.value, "v", FALSE)
          IN  /\ call' = [op |-> "set_scale", channel |-> channel,
                          voltage |-> voltage]
              /\ ret' = [raised |-> channel \notin channel_list \/ snapped.raised]
              /\ written' = IF channel \notin channel_list \/ snapped.raised
                            THEN <<>>
                            ELSE <<[cmd |-> ":CH:SCAL", channel |-> channel,
                                    token |-> StripSpaces(text)]>>
    /\ pc' = "done"
    /\ UNCHANGED <<frames, heap>>

\* scale.get_val_ceil(target, validated, vals_valid)
CallGetValCeil ==
    /\ pc = "idle"
    /\ \E vals_valid \in ValidLists, target \in CeilTargets :
          \E validated \in {vals_valid[i] : i \in 1..Len(vals_valid)} :
              /\ call' = [op |-> "get_val_ceil", target |-> target,
                          validated |-> validated, vals_valid |-> vals_valid]
              /\ ret' = get_val_ceil(target, validated, vals_valid)
    /\ pc' = "done"
    /\ UNCHANGED <<frames, heap>>
    /\ UNCHANGED written

\* OwonVDS6104.capture(channel).  The three getters run first; get_scale
\* raises on an invalid channel, after the timebase query has been written.
Capture ==
    /\ pc = "idle"
    /\ \E channel \in Channels, scale_time \in Periods,
          scale_voltage \in Scales, offset_divisons \in Offsets,
          fetch \in Fetches :
          LET valid == channel \in channel_list
              st    == DecodeLoop(fetch.data,
                                  [index |-> 0, volt_wave |-> <<>>,
                                   time |-> <<>>],
                                  offset_divisons, scale_voltage, scale_time)
              head  == <<[cmd |-> ":HORI:SCAL?", channel |-> 0],
                         [cmd |-> ":CH:SCAL?", channel |-> channel],
                         [cmd |-> ":CH:OFFS?", channel |-> channel],
                         [cmd |-> ":WAV:BEG", channel |-> channel],
                         [cmd |-> "WAV:RANG 0,1000", channel |-> 0],
                         [cmd |-> ":WAV:FETC?", channel |-> 0]>>
          IN  /\ call' = [op |-> "capture", channel |-> channel,
                          scale_time |-> scale_time,
                          scale_voltage |-> IF valid THEN scale_voltage
                                            ELSE <<>>,
                          offset_divisons |-> IF valid THEN offset_divisons
                                              ELSE <<>>,
                          fetch |-> IF valid THEN fetch
                                    ELSE [ok |-> FALSE, data |-> <<>>]]
              /\ written' = IF ~valid THEN SubSeq(head, 1, 1)
                            ELSE IF ~fetch.ok THEN head
                            ELSE Append(head, [cmd |-> ":WAV:END", channel |-> 0])
              /\ ret' = IF valid /\ fetch.ok
                        THEN [raised |-> FALSE, time |-> st.time,
                              volt_wave |-> st.volt_wave]
                        ELSE [raised |-> TRUE, time |-> <<>>,
                              volt_wave |-> <<>>]
    /\ pc' = "done"
    /\ UNCHANGED <<frames, heap>>

\* OwonVDS6104.set_coupling(channel, mode)
SetCoupling ==
    /\ pc = "idle"
    /\ \E channel \in Channels, requested \in CouplingModes :
          LET mode == IF requested.t = "str" THEN Str(lower(requested.v))
                      ELSE requested
              cmd(arg) == <<[cmd |-> ":CH:COUP", channel |-> channel,
                             arg |-> arg]>>
          IN  /\ call' = [op |-> "set_coupling", channel |-> channel,
                          mode |-> requested]
              /\ IF channel \notin channel_list
                 THEN written' = <<>> /\ ret' = [raised |-> TRUE]
                 ELSE /\ ret' = [raised |-> FALSE]
                      /\ written' =
                           IF mode \in {Str("ac"), Member("Coupling", "ac")}
                           THEN cmd("AC")
                           ELSE IF mode \in {Str("dc"), Member("Coupling", "dc")}
                           THEN cmd("DC")
                           ELSE IF mode \in {Str("gnd"), Member("Coupling", "dc")}
                           THEN cmd("GND")
                           ELSE <<>>
    /\ pc' = "done"
    /\ UNCHANGED <<frames, heap>>

\* The trig_mode setter
SetTrigMode ==
    /\ pc = "idle"
    /\ \E mode \in TriggerModes :
          LET cmd(arg) == <<[cmd |-> ":TRIG:SING:MODE", channel |-> 0,
                             arg |-> arg]>>
              known == mode \in {Member("Trigger", "EDGE"),
                                 Member("Trigger", "VID"),
                                 Member("Trigger", "PULS"),
                                 Member("Trigger", "SLOP")}
          IN  /\ call' = [op |-> "trig_mode", mode |-> mode]
              /\ written' = IF known THEN cmd(mode.v) ELSE <<>>
              /\ ret' = [raised |-> ~known]
    /\ pc' = "done"
    /\ UNCHANGED <<frames, heap>>

\* The trig_holdoff setter
SetTrigHoldoff ==
    /\ pc = "idle"
    /\ \E hold_time \in HoldTimes :
          /\ call' = [op |-> "trig_holdoff", hold_time |-> hold_time]
          /\ IF HoldoffAccepted(hold_time)
             THEN /\ written' = <<[cmd |-> ":TRIG:SING:HOLD", channel |-> 0,
                                   value |-> float(hold_time)]>>
                  /\ ret' = [raised |-> FALSE, exc |-> ""]
             ELSE /\ written' = <<>>
                  /\ ret' = [raised |-> TRUE, exc |-> "ValueError"]
    /\ pc' = "done"
    /\ UNCHANGED <<frames, heap>>

\* The trig_source setter
SetTrigSource ==
    /\ pc = "idle"
    /\ \E source \in TriggerSources :
          LET cmd(arg) == <<[cmd |-> ":TRIG:SING:EDGE:SOUR", channel |-> 0,
                             arg |-> arg]>>
              out == IF source \in {Num("1"), Member("Trigger", "CH1")}
                     THEN cmd("CH1")
                     ELSE IF source \in {Num("2"), Member("Trigger", "CH2")}
                     THEN cmd("CH2")
                     ELSE IF source \in {Num("3"), Member("Trigger", "CH3")}
                     THEN cmd("CH3")
                     ELSE IF source \in {Num("4"), Member("Trigger", "CH4")}
                     THEN cmd("CH4")
                     ELSE <<>>
          IN  /\ call' = [op |-> "trig_source", source |-> source]
              /\ written' = out
              /\ ret' = IF out = <<>> THEN [raised |-> TRUE, exc |-> "ValueError"]
                        ELSE [raised |-> FALSE, exc |-> ""]
    /\ pc' = "done"
    /\ UNCHANGED <<frames, heap>>

\* The trig_coupling setter
SetTrigCoupling ==
    /\ pc = "idle"
    /\ \E mode \in TriggerCouplings :
          LET cmd(arg) == <<[cmd |-> ":TRIG:SING:EDGE:COUP", channel |-> 0,
                             arg |-> arg]>>
              out == IF mode \in {Str("ac"), Str("AC"), Member("Trigger", "AC")}
                     THEN cmd("AC")
                     ELSE IF mode \in {Str("dc"), Str("DC"),
                                       Member("Trigger", "DC")}
                     THEN cmd("DC")
                     ELSE IF mode \in {Str("hf"), Str("HF"),
                                       Member("Trigger", "HF")}
                     THEN cmd("HF")
                     ELSE <<>>
          IN  /\ call' = [op |-> "trig_coupling", mode |-> mode]
              /\ written' = out
              /\ ret' = IF out = <<>> THEN [raised |-> TRUE, exc |-> "ValueError"]
                        ELSE [raised |-> FALSE, exc |-> ""]
    /\ pc' = "done"
    /\ UNCHANGED <<frames, heap>>

\* The memory_depth setter
SetMemoryDepth ==
    /\ pc = "idle"
    /\ \E depth \in Depths :
          /\ call' = [op |-> "memory_depth", depth |-> depth]
          /\ IF depth \in available_depths
             THEN /\ written' = <<[cmd |-> ":ACQ:DEPMEM", channel |-> 0,
                                   arg |-> depth.v]>>
                  /\ ret' = [raised |-> FALSE, exc |-> ""]
             ELSE /\ written' = <<>>
                  /\ ret' = [raised |-> TRUE, exc |-> "Exception"]
    /\ pc' = "done"
    /\ UNCHANGED <<frames, heap>>

\* The precision setter
SetPrecision ==
    /\ pc = "idle"
    /\ \E num_bits \in Precisions :
          /\ call' = [op |-> "precision", num_bits |-> num_bits]
          /\ IF num_bits \in available_precisions
             THEN /\ written' = <<[cmd |-> ":ACQ:PREC", channel |-> 0,
                                   arg |-> num_bits.v]>>
                  /\ ret' = [raised |-> FALSE, exc |-> ""]
             ELSE /\ written' = <<>>
                  /\ ret' = [raised |-> TRUE, exc |-> "Exception"]
    /\ pc' = "done"
    /\ UNCHANGED <<frames, heap>>

\* The time_measurement setter
SetTimeMeasurement ==
    /\ pc = "idle"
    /\ \E time_interval \in GateTimes :
          /\ call' = [op |-> "time_measurement",
                      time_interval |-> time_interval]
          /\ IF Le(min_measurement_time, time_interval)
             THEN /\ written' = <<[cmd |-> ":MEAS:TIM", channel |-> 0,
                                   value |-> time_interval]>>
                  /\ ret' = [raised |-> FALSE, exc |-> ""]
             ELSE /\ written' = <<>>
                  /\ ret' = [raised |-> TRUE, exc |-> "Exception"]
    /\ pc' = "done"
    /\ UNCHANGED <<frames, heap>>

\* OwonVDS6104.measure(channel, function): the measurement_source setter,
\* the state_measurement setter with State.enable, then the query or the
\* exception
Measure ==
    /\ pc = "idle"
    /\ \E channel \in Channels, function \in Functions, reply \in Replies :
          LET valid == channel \in channel_list
              mapped == InFunctionMap(function)
              setup == <<[cmd |-> ":MEAS:SOUR", channel |-> channel],
                         [cmd |-> ":MEAS:DISP ON", channel |-> 0]>>
          IN  /\ call' = [op |-> "measure", channel |-> channel,
                          function |-> function,
                          reply |-> IF valid /\ mapped THEN reply ELSE <<>>]
              /\ written' =
                    IF ~valid THEN <<>>
                    ELSE IF mapped
                    THEN Append(setup, [cmd |-> ":MEAS:?", channel |-> 0,
                                        arg |-> function_map[function.v]])
                    ELSE setup
              /\ ret' = IF valid /\ mapped
                        THEN [raised |-> FALSE, value |-> strip(reply)]
                        ELSE [raised |-> TRUE, value |-> <<>>]
    /\ pc' = "done"
    /\ UNCHANGED <<frames, heap>>

\* The call returns (or its exception propagates) and the caller goes on.
Return ==
    /\ pc = "done"
    /\ pc' = "idle"
    /\ UNCHANGED <<frames, heap>>
    /\ call' = NoCall
    /\ ret' = NoRet
    /\ written' = <<>>

Next ==
    \/ CallCalcValidInputs
    \/ CallGetClosestValue
    \/ SetTimebase
    \/ SetScale
    \/ CallGetValCeil
    \/ Capture
    \/ SetCoupling
    \/ SetTrigMode
    \/ Measure
    \/ SetTrigHoldoff
    \/ SetTrigSource
    \/ SetTrigCoupling
    \/ SetMemoryDepth
    \/ SetPrecision
    \/ SetTimeMeasurement
    \/ Return

Spec == Init /\ [][Next]_vars

\* ----------------------------------------------- concurrent pure functions
\* Thread t calls calc_valid_inputs or get_closest_value (which calls
\* calc_valid_inputs first) and runs lines 30 to 37: the list is created
\* and the index and exponent are taken from MIN_VAL, or line 34 raises.
Enter(t, c) ==
    LET found == IF IsNeg(c.MIN) THEN 0
                 ELSE IndexOf(SciLead(c.MIN), c.MANTISSA)
        a     == Alloc(heap)
    IN  IF found = 0
        THEN /\ frames' = [frames EXCEPT ![t] =
                    [IdleFrame EXCEPT !.pc = "done", !.op = c.op, !.args = c,
                        !.result =
                            IF c.op = "calc_valid_inputs"
                            THEN [raised |-> TRUE, values |-> <<>>]
                            ELSE [raised |-> TRUE, value |-> Zero,
                                  scanned |-> 0]]]
             /\ UNCHANGED heap
        ELSE /\ frames' = [frames EXCEPT ![t] =
                    [IdleFrame EXCEPT !.pc = "while", !.op = c.op,
                        !.args = c, !.list = a,
                        !.st = [value |-> c.MIN, idx_mantissa |-> found - 1,
                                exponent |-> SciExp(c.MIN)]]]
             /\ heap' = [heap EXCEPT ![a] = [used |-> TRUE, items |-> <<>>]]

\* Thread t makes one of the calls drawn for the threads
ThreadCall(t) ==
    /\ frames[t].pc = "idle"
    /\ \E c \in ThreadCalls : Enter(t, c)
    /\ UNCHANGED <<pc, call, ret, written>>

\* One test of the while condition of calc_valid_inputs by thread t, and
\* the body (lines 40 to 49) or the return (line 50) that follows it
ThreadWhile(t) ==
    LET f  == frames[t]
        st == [value |-> f.st.value, idx_mantissa |-> f.st.idx_mantissa,
               exponent |-> f.st.exponent,
               values_valid |-> heap[f.list].items]
    IN  /\ f.pc = "while"
        /\ IF Le(st.value, f.args.MAX)
           THEN /\ Len(st.values_valid) < MaxValues
                /\ LET new == CalcStep(st, f.args.MANTISSA)
                   IN  /\ heap' = [heap EXCEPT ![f.list].items =
                                       new.values_valid]
                       /\ frames' = [frames EXCEPT ![t].st =
                                       [value |-> new.value,
                                        idx_mantissa |-> new.idx_mantissa,
                                        exponent |-> new.exponent]]
           ELSE /\ UNCHANGED heap
                /\ frames' = [frames EXCEPT ![t] =
                       IF f.op = "calc_valid_inputs"
                       THEN [f EXCEPT !.pc = "done",
                                !.result = [raised |-> FALSE,
                                            values |-> st.values_valid]]
                       ELSE [f EXCEPT !.pc = "for", !.i = 1,
                                !.scan = [first_run |-> 0, delta |-> Zero,
                                          min_delta |-> Zero,
                                          lowest_value |-> Zero]]]
        /\ UNCHANGED <<pc, call, ret, written>>

\* One pass of the for loop of get_closest_value by thread t over the list
\* calc_valid_inputs returned, or the return after the last element
ThreadFor(t) ==
    LET f == frames[t]
        possible_values == heap[f.list].items
    IN  /\ f.pc = "for"
        /\ IF f.i > Len(possible_values)
           THEN frames' = [frames EXCEPT ![t] =
                    [f EXCEPT !.pc = "done",
                        !.result = [raised |-> FALSE,
                                    value |-> f.scan.lowest_value,
                                    scanned |-> f.i - 1]]]
           ELSE LET st1 == ScanStep(f.scan, possible_values[f.i],
                                    f.args.input_value)
                IN  frames' = [frames EXCEPT ![t] =
                        IF st1.delta = Zero
                        THEN [f EXCEPT !.pc = "done",
                                 !.result = [raised |-> FALSE,
                                             value |-> possible_values[f.i],
                                             scanned |-> f.i]]
                        ELSE [f EXCEPT !.i = f.i + 1, !.scan = st1]]
        /\ UNCHANGED <<pc, call, ret, written, heap>>

\* The invocation of thread t returns: its frame is gone and nothing refers
\* to its list any more
ThreadReturn(t) ==
    /\ frames[t].pc = "done"
    /\ frames' = [frames EXCEPT ![t] = IdleFrame]
    /\ heap' = IF frames[t].list = 0 THEN heap
               ELSE [heap EXCEPT ![frames[t].list] = FreeCell]
    /\ UNCHANGED <<pc, call, ret, written>>

NextThreads ==
    \/ \E t \in Threads : ThreadCall(t)
    \/ \E t \in Threads : ThreadWhile(t)
    \/ \E t \in Threads : ThreadFor(t)
    \/ \E t \in Threads : ThreadReturn(t)

SpecThreads == Init /\ [][NextThreads]_vars

\* ---------------------------------------- concurrent calls on one driver
\* The threads share the driver object and its instrument; written is the
\* stream of messages the instrument receives, each marked with the thread
\* that sent it.  No statement of the driver takes a lock.

\* The messages of capture in program order (lines 791 to 800)
CaptureSends(channel) ==
    <<[cmd |-> ":HORI:SCAL?", channel |-> 0],
      [cmd |-> ":CH:SCAL?", channel |-> channel],
      [cmd |-> ":CH:OFFS?", channel |-> channel],
      [cmd |-> ":WAV:BEG", channel |-> channel],
      [cmd |-> "WAV:RANG 0,1000", channel |-> 0],
      [cmd |-> ":WAV:FETC?", channel |-> 0],
      [cmd |-> ":WAV:END", channel |-> 0]>>

\* A message as the instrument receives it from thread t
Sent(msg, t) ==
    [cmd |-> msg.cmd, channel |-> msg.channel, by |-> t]

\* Thread t calls measure or capture on the shared driver
DriverCall(t) ==
    /\ frames[t].pc = "idle"
    /\ \E c \in DriverCalls :
          frames' = [frames EXCEPT ![t] =
              [IdleFrame EXCEPT !.pc = IF c.op = "measure" THEN "source"
                                       ELSE "capture",
                                !.op = c.op, !.args = c, !.i = 1]]
    /\ UNCHANGED <<pc, call, ret, written, heap>>

\* measure, line 671: the measurement_source setter
MeasureSource(t) ==
    LET f == frames[t]
    IN  /\ f.pc = "source"
        /\ IF f.args.channel \in channel_list
           THEN /\ written' = Append(written,
                       Sent([cmd |-> ":MEAS:SOUR",
                             channel |-> f.args.channel], t))
                /\ frames' = [frames EXCEPT ![t].pc = "display"]
           ELSE /\ UNCHANGED written
                /\ frames' = [frames EXCEPT ![t].pc = "done",
                                 ![t].result = [raised |-> TRUE]]
        /\ UNCHANGED <<pc, call, ret, heap>>

\* measure, line 672: the state_measurement setter with State.enable
MeasureDisplay(t) ==
    /\ frames[t].pc = "display"
    /\ written' = Append(written,
           Sent([cmd |-> ":MEAS:DISP ON", channel |-> 0], t))
    /\ frames' = [frames EXCEPT ![t].pc = "query"]
    /\ UNCHANGED <<pc, call, ret, heap>>

\* measure, lines 699 to 702: the query and its reply, or the exception
MeasureQuery(t) ==
    LET f == frames[t]
    IN  /\ f.pc = "query"
        /\ IF InFunctionMap(f.args.function)
           THEN \E reply \in Replies :
                   /\ written' = Append(written,
                          Sent([cmd |-> ":MEAS:?", channel |-> 0], t))
                   /\ frames' = [frames EXCEPT ![t].pc = "done",
                                    ![t].result = [raised |-> FALSE,
                                                   value |-> strip(reply)]]
           ELSE /\ UNCHANGED written
                /\ frames' = [frames EXCEPT ![t].pc = "done",
                                 ![t].result = [raised |-> TRUE]]
        /\ UNCHANGED <<pc, call, ret, heap>>

\* capture, lines 791 to 804: the next message of the call of thread t.
\* get_scale (the second message) raises on an invalid channel before it
\* sends, the fetch (the sixth) may raise, and the samples are decoded after
\* the last message.
CaptureStep(t) ==
    LET f    == frames[t]
        msgs == CaptureSends(f.args.channel)
    IN  /\ f.pc = "capture"
        /\ IF f.i = 2 /\ f.args.channel \notin channel_list
           THEN /\ UNCHANGED written
                /\ frames' = [frames EXCEPT ![t].pc = "done",
                                 ![t].result = [raised |-> TRUE]]
           ELSE /\ written' = Append(written, Sent(msgs[f.i], t))
                /\ IF f.i = 6
                   THEN \E fetch \in DriverFetches :
                           frames' = [frames EXCEPT ![t] =
                               IF fetch.ok
                               THEN [f EXCEPT !.i = 7, !.scan = fetch.data]
                               ELSE [f EXCEPT !.pc = "done",
                                        !.result = [raised |-> TRUE]]]
                   ELSE IF f.i = Len(msgs)
                   THEN LET w == DecodeLoop(f.scan,
                                    [index |-> 0, volt_wave |-> <<>>,
                                     time |-> <<>>],
                                    DriverReplies[3], DriverReplies[2],
                                    DriverReplies[1])
                        IN  frames' = [frames EXCEPT ![t].pc = "done",
                                ![t].result = [raised |-> FALSE,
                                               time |-> w.time,
                                               volt_wave |-> w.volt_wave]]
                   ELSE frames' = [frames EXCEPT ![t].i = f.i + 1]
        /\ UNCHANGED <<pc, call, ret, heap>>

NextDriver ==
    \/ \E t \in Threads : DriverCall(t)
    \/ \E t \in Threads : MeasureSource(t)
    \/ \E t \in Threads : MeasureDisplay(t)
    \/ \E t \in Threads : MeasureQuery(t)
    \/ \E t \in Threads : CaptureStep(t)

SpecDriver == Init /\ [][NextDriver]_vars

\* ------------------------------------------------- one invocation, stepwise
\* Thread 1 makes any of the calls drawn for the loop
LoopCall ==
    /\ frames[1].pc = "idle"
    /\ \E c \in LoopCalls : Enter(1, c)
    /\ UNCHANGED <<pc, call, ret, written>>

LoopWhile == ThreadWhile(1)

LoopFor == ThreadFor(1)

LoopReturn == ThreadReturn(1)

NextLoop ==
    \/ LoopCall
    \/ LoopWhile
    \/ LoopFor
    \/ LoopReturn

\* A thread inside an invocation keeps running: the interpreter goes on to
\* the next statement of the loop
SpecLoop == Init /\ [][NextLoop]_vars /\ WF_vars(LoopWhile) /\ WF_vars(LoopFor)

\* ------------------------------------------------------------------ claims
Range(s) == {s[i] : i \in 1..Len(s)}

Positive(a) == Lt(Zero, a)

\* A direct call of get_closest_value has returned or raised
GcvDone == pc = "done" /\ call.op = "get_closest_value"

\* A direct call of calc_valid_inputs has returned or raised
CalcDone == pc = "done" /\ call.op = "calc_valid_inputs"

\* The step sequence the finished get_closest_value call was resolved against
CallSeq == calc_valid_inputs(call.MIN, call.MAX, call.MANTISSA)

\* |s[i] - target|
Delta(s, i, target) == Abs(Sub(s[i], target))

\* The legal timebases and vertical scales of the driver
LegalTimebases ==
    Range(calc_valid_inputs(timebase_min, timebase_max, mantissa).values)

LegalScales == Range(calc_valid_inputs(scale_min, scale_max, mantissa).values)

\* C1: over every non-empty generated sequence get_closest_value returns the
\* member of minimal absolute difference to the target, the value
\* validate_input returns on that sequence.
C1_ClosestIsMinAbsDiff ==
    (GcvDone /\ ~CallSeq.raised /\ CallSeq.values # <<>>)
        => /\ ~ret.raised
           /\ ret.value = validate_input(call.input_value, CallSeq.values).value

\* C2: over every non-empty generated sequence the value get_closest_value
\* returns is an element of the sequence.
C2_ResultIsMember ==
    (GcvDone /\ ~CallSeq.raised /\ CallSeq.values # <<>>)
        => /\ ~ret.raised
           /\ ret.value \in Range(CallSeq.values)

\* C3: the magnitude the timebase setter sends with :HORI:SCAL is a legal
\* timebase, and the magnitude set_scale sends with :CH<n>:SCAL on a valid
\* channel is a legal vertical scale.
C3_SentValueIsLegal ==
    /\ (pc = "done" /\ call.op = "timebase")
          => /\ Len(written) = 1
             /\ written[1].cmd = ":HORI:SCAL"
             /\ Magnitude(written[1].token) \in LegalTimebases
    /\ (pc = "done" /\ call.op = "set_scale" /\ call.channel \in channel_list)
          => /\ Len(written) = 1
             /\ written[1].cmd = ":CH:SCAL"
             /\ Magnitude(written[1].token) \in LegalScales

\* The first position of x in s
FirstIndex(x, s) ==
    CHOOSE i \in 1..Len(s) : s[i] = x /\ \A j \in 1..(i - 1) : s[j] # x

\* C4: for a target equal to a member of the sequence get_closest_value
\* returns that member and has examined no element after the match; setting
\* the timebase or a channel scale to a legal step sends exactly that step.
C4_ExactMatchShortCircuit ==
    /\ (GcvDone /\ ~CallSeq.raised
            /\ call.input_value \in Range(CallSeq.values))
          => /\ ~ret.raised
             /\ ret.value = call.input_value
             /\ ret.scanned = FirstIndex(call.input_value, CallSeq.values)
    /\ (pc = "done" /\ call.op = "timebase"
            /\ call.time_base \in LegalTimebases)
          => /\ Len(written) = 1
             /\ Magnitude(written[1].token) = call.time_base
    /\ (pc = "done" /\ call.op = "set_scale" /\ call.channel \in channel_list
            /\ call.voltage \in LegalScales)
          => /\ Len(written) = 1
             /\ written[1].channel = call.channel
             /\ Magnitude(written[1].token) = call.voltage

\* C4 witness: an exact match before the end of a sequence was returned
C4_Witness ==
    /\ GcvDone /\ ~ret.raised
    /\ call.input_value \in Range(CallSeq.values)
    /\ ret.scanned > 1
    /\ ret.scanned < Len(CallSeq.values)

\* C5: get_closest_value applied to its own result over the same
\* (MIN, MAX, MANTISSA) returns that result again.
C5_Idempotent ==
    (GcvDone /\ ~ret.raised)
        => LET again == get_closest_value(ret.value, call.MIN, call.MAX,
                                          call.MANTISSA)
           IN  ~again.raised /\ again.value = ret.value

\* C5 witness: a target that is no member was snapped to a member
C5_Witness ==
    /\ GcvDone /\ ~ret.raised
    /\ call.input_value \notin Range(CallSeq.values)
    /\ ret.value \in Range(CallSeq.values)

\* C6: when two members are equally close to the target and nothing is
\* closer, get_closest_value returns the one that comes first.
C6_TieFirstWins ==
    (GcvDone /\ ~CallSeq.raised)
        => LET s == CallSeq.values
               x == call.input_value
           IN  \A i, j \in 1..Len(s) :
                  (/\ i < j
                   /\ Delta(s, i, x) = Delta(s, j, x)
                   /\ Delta(s, i, x) # Zero
                   /\ \A k \in 1..Len(s) : Le(Delta(s, i, x), Delta(s, k, x))
                   /\ \A k \in 1..(i - 1) : Lt(Delta(s, i, x), Delta(s, k, x)))
                      => ret.value = s[i]

\* C7: resolving against an empty step sequence raises; get_closest_value
\* returns no value.
C7_EmptyRaises ==
    (GcvDone /\ ~CallSeq.raised /\ CallSeq.values = <<>>) => ret.raised

StrictlyAscending(s) == \A i \in 1..(Len(s) - 1) : Lt(s[i], s[i + 1])

\* The preconditions of the generator: min > 0, min <= max and the leading
\* digit of min in the mantissas (calc_valid_inputs did not raise)
ValidCalc ==
    /\ CalcDone /\ ~ret.raised
    /\ Positive(call.MIN_VAL)
    /\ Le(call.MIN_VAL, call.MAX_VAL)

\* C8 as stated: for every ascending mantissa set of small positive integers,
\* [1,3,10] included, the generated list is strictly ascending.
C8_StrictlyAscendingAnyMantissas ==
    ValidCalc => StrictlyAscending(ret.values)

\* C8 amended: for every ascending mantissa set of decimal digits 1..9 the
\* generated list is strictly ascending, so it has no duplicate.
C8_StrictlyAscendingDigits ==
    (ValidCalc /\ \A i \in 1..Len(call.MANTISSA) : call.MANTISSA[i] \in 1..9)
        => StrictlyAscending(ret.values)

\* C8 witness: a list that runs over more than one decade was generated
C8_Witness ==
    /\ ValidCalc
    /\ \A i \in 1..Len(call.MANTISSA) : call.MANTISSA[i] \in 1..9
    /\ Len(ret.values) > Len(call.MANTISSA) + 1

\* C9: the generated list is non-empty, starts at min and has no element
\* above max; for min = max it is [min].
C9_FirstIsMinNoneAboveMax ==
    ValidCalc
        => /\ ret.values # <<>>
           /\ ret.values[1] = call.MIN_VAL
           /\ \A i \in 1..Len(ret.values) : Le(ret.values[i], call.MAX_VAL)
           /\ (call.MIN_VAL = call.MAX_VAL => ret.values = <<call.MIN_VAL>>)

\* C9 witness: the generator was called with min = max
C9_Witness ==
    /\ ValidCalc
    /\ call.MIN_VAL = call.MAX_VAL
    /\ ret.values = <<call.MIN_VAL>>

\* timebases of the test suite
timebases ==
    [i \in 1..34 |-> FromSci(mantissa[((i - 1) % 3) + 1], 1 + (i - 1) \div 3)]

\* C10: the generated list contains every mantissa * 10^e between min and
\* max, max included; (2e-3, 10) gives the 12 values 0.002 .. 10, (2e-9, 10)
\* the 30 values of the docstring and (1e-9, 100) the 34 timebases of the
\* test suite.
C10_CompleteInclusive ==
    /\ ValidCalc
          => \A i \in 1..Len(call.MANTISSA), e \in 0..SciExp(call.MAX_VAL) :
                LET v == FromSci(call.MANTISSA[i], e)
                IN  (Le(call.MIN_VAL, v) /\ Le(v, call.MAX_VAL))
                        => v \in Range(ret.values)
    /\ (CalcDone /\ call.MANTISSA = mantissa /\ call.MAX_VAL = FromSci(10, 10))
          => /\ call.MIN_VAL = FromSci(2, 7)
                => ret.values = [i \in 1..12 |->
                                    FromSci(mantissa[(i % 3) + 1], 7 + i \div 3)]
             /\ call.MIN_VAL = FromSci(2, 1)
                => ret.values = [i \in 1..30 |->
                                    FromSci(mantissa[(i % 3) + 1], 1 + i \div 3)]
    /\ (CalcDone /\ call.MANTISSA = mantissa /\ call.MIN_VAL = timebase_min
            /\ call.MAX_VAL = timebase_max)
          => ret.values = timebases

\* C10 witness: the 34 timebases were generated, ending exactly at max
C10_Witness ==
    /\ ValidCalc
    /\ ret.values = timebases
    /\ ret.values[Len(ret.values)] = call.MAX_VAL

\* C11: every element of the generated list is mantissa * 10^exp for a
\* mantissa of the set, also when min has further significant digits after a
\* leading digit that is in the set.
C11_ElementsDecompose ==
    ValidCalc
        => \A i \in 1..Len(ret.values) :
              \E j \in 1..Len(call.MANTISSA), e \in 0..SciExp(call.MAX_VAL) :
                  ret.values[i] = FromSci(call.MANTISSA[j], e)

\* C12: calc_valid_inputs with min <= 0 raises and returns no sequence, for
\* every max and every mantissa set of positive integers.
C12_NonPositiveMinRaises ==
    (CalcDone /\ ~Positive(call.MIN_VAL))
        => ret.raised /\ ret.values = <<>>

\* C12 witness: the generator was called with a negative min and raised
C12_Witness ==
    /\ CalcDone
    /\ IsNeg(call.MIN_VAL)
    /\ ret.raised

\* C13: calc_valid_inputs raises, and returns no sequence, whenever the
\* leading significant digit of min is not in the mantissa set.
C13_LeadingDigitMismatchRaises ==
    (CalcDone /\ Positive(call.MIN_VAL)
        /\ \A j \in 1..Len(call.MANTISSA) :
              call.MANTISSA[j] # SciLead(call.MIN_VAL))
        => ret.raised /\ ret.values = <<>>

\* C13 witness: min has leading digit 3, the mantissas are (1,2,5), and the
\* call raised
C13_Witness ==
    /\ CalcDone
    /\ SciLead(Abs(call.MIN_VAL)) = 3
    /\ call.MANTISSA = mantissa
    /\ ret.raised

\* A direct call of get_val_ceil has returned or raised
CeilDone == pc = "done" /\ call.op = "get_val_ceil"

\* C14: get_val_ceil returns the element following validated when
\* validated < target <= max(vals_valid), and validated itself when
\* target <= validated or target > max(vals_valid).
C14_CeilReturnsNext ==
    CeilDone
        => LET s == call.vals_valid
               i == FirstIndex(call.validated, s)
           IN  /\ ~ret.raised /\ ~ret.none
               /\ (Lt(call.validated, call.target) /\ Le(call.target, Max(s)))
                      => ret.value = s[i + 1]
               /\ (Le(call.target, call.validated) \/ Lt(Max(s), call.target))
                      => ret.value = call.validated

\* The timebase setter has written its command
TimebaseWritten == pc = "done" /\ call.op = "timebase" /\ Len(written) = 1

\* set_scale has written its command
ScaleWritten == pc = "done" /\ call.op = "set_scale" /\ Len(written) = 1

\* The twelve padding values 1e-9 .. 5
PaddingValues ==
    {FromSci(1, 1), FromSci(2, 1), FromSci(5, 1),
     FromSci(1, 4), FromSci(2, 4), FromSci(5, 4),
     FromSci(1, 7), FromSci(2, 7), FromSci(5, 7),
     FromSci(1, 10), FromSci(2, 10), FromSci(5, 10)}

\* The numeral of the token has one fractional digit, a kept zero
OneDecimal(token) ==
    /\ Len(token) = 5
    /\ token[1].k = "int"
    /\ token[2].k = "point"
    /\ token[3].k = "frac" /\ token[3].n = 0

\* The numeral of the token is a bare integer
NoDecimal(token) ==
    /\ Len(token) = 3
    /\ token[1].k = "int"

\* C15: the timebase setter renders the snapped value with exactly one
\* decimal digit, the zero kept, if and only if it is one of the twelve
\* padding values; every other snapped value gets the default rendering.
C15_PaddingIffInTimeDec ==
    TimebaseWritten
        => LET token == written[1].token
           IN  IF Magnitude(token) \in PaddingValues
               THEN OneDecimal(token)
               ELSE NoDecimal(token)

\* C15 witness: a request was snapped to 1 and sent as 1.0s
C15_Witness ==
    /\ TimebaseWritten
    /\ call.time_base # FromSci(1, 10)
    /\ Magnitude(written[1].token) = FromSci(1, 10)
    /\ OneDecimal(written[1].token)

\* C16: the token the timebase setter and set_scale send has no space: it is
\* the numeral immediately followed by the unit suffix.
C16_NoSpaceInToken ==
    (TimebaseWritten \/ ScaleWritten)
        => LET token == written[1].token
               n     == Len(token)
           IN  /\ n >= 3
               /\ \A i \in 1..n : token[i].k # "space"
               /\ \A i \in 1..(n - 2) : token[i].k \in {"int", "point", "frac"}
               /\ token[n - 1].k = "prefix"
               /\ token[n].k = "units"

\* C16 witness: set_scale has sent a token in millivolts
C16_Witness ==
    /\ ScaleWritten
    /\ written[1].token[2].k = "prefix"
    /\ written[1].token[2].s = "m"

\* capture has returned its two lists
CaptureReturned == pc = "done" /\ call.op = "capture" /\ ~ret.raised

\* C17: the time and voltage lists capture returns have the length of the
\* raw sample list, voltage[i] = (raw[i] / 6400 - offset) * scale and
\* time[i] = period * i; code 0 with offset 0 is 0 volts and code 6400 with
\* scale 1 and offset 0 is 1 volt.
C17_DecodePointwise ==
    CaptureReturned
        => LET raw == call.fetch.data
           IN  /\ Len(ret.time) = Len(raw)
               /\ Len(ret.volt_wave) = Len(raw)
               /\ \A i \in 1..Len(raw) :
                     /\ ret.volt_wave[i]
                           = RatMul(RatSub(Rat(raw[i], 6400),
                                           call.offset_divisons),
                                    call.scale_voltage)
                     /\ ret.time[i] = RatMul(call.scale_time, Rat(i - 1, 1))
                     /\ (raw[i] = 0 /\ call.offset_divisons = Rat(0, 1))
                           => ret.volt_wave[i] = Rat(0, 1)
                     /\ (raw[i] = 6400 /\ call.offset_divisons = Rat(0, 1)
                            /\ call.scale_voltage = Rat(1, 1))
                           => ret.volt_wave[i] = Rat(1, 1)

\* C17 witness: two different samples were decoded with a non-zero offset
C17_Witness ==
    /\ CaptureReturned
    /\ Len(call.fetch.data) = 2
    /\ call.fetch.data[1] # call.fetch.data[2]
    /\ call.offset_divisons # Rat(0, 1)
    /\ ret.volt_wave[1] # ret.volt_wave[2]

\* The coupling mode a supported selector names, in lower case
CouplingName(mode) == IF mode.t = "str" THEN lower(mode.v) ELSE mode.v

\* The upper-case name of a coupling mode
UpperName(name) ==
    CASE name = "ac" -> "AC" [] name = "dc" -> "DC" [] name = "gnd" -> "GND"

\* The selector is a supported coupling mode: 'ac', 'dc' or 'gnd' in any
\* letter case, or a member of Coupling
SupportedCoupling(mode) ==
    \/ mode.t = "str" /\ lower(mode.v) \in {"ac", "dc", "gnd"}
    \/ mode \in Coupling

\* set_coupling has run on a valid channel
CouplingDone ==
    pc = "done" /\ call.op = "set_coupling" /\ call.channel \in channel_list

\* C18: on a valid channel, every supported coupling mode, given as a
\* string in any letter case or as a member of Coupling, makes set_coupling
\* write exactly one command ':CH<channel>:COUP <MODE>' with MODE the
\* upper-case name of the requested mode.
C18_CouplingWritesOneCommand ==
    (CouplingDone /\ SupportedCoupling(call.mode))
        => /\ Len(written) = 1
           /\ written[1].cmd = ":CH:COUP"
           /\ written[1].channel = call.channel
           /\ written[1].arg = UpperName(CouplingName(call.mode))

\* The selector of the finished call is not one its operation supports
UnsupportedSelector ==
    /\ pc = "done"
    /\ \/ /\ call.op = "measure"
          /\ call.channel \in channel_list
          /\ call.function \notin Measurement
       \/ /\ call.op = "set_coupling"
          /\ call.channel \in channel_list
          /\ ~SupportedCoupling(call.mode)
       \/ /\ call.op = "trig_mode"
          /\ call.mode \notin {Member("Trigger", v) :
                                  v \in {"EDGE", "VID", "PULS", "SLOP"}}

\* C19: measure with a function that is no supported measurement,
\* set_coupling on a valid channel with a mode that is no supported
\* coupling, and the trig_mode setter with a value that is no trigger mode
\* each raise instead of returning normally.
C19_UnsupportedSelectorRaises == UnsupportedSelector => ret.raised

\* C20: for every member f of Measurement and every valid channel,
\* measure(channel, f) issues the query ':MEAS:<f.value>?' and returns its
\* reply without raising.
C20_MeasureSupportsEveryMember ==
    (pc = "done" /\ call.op = "measure" /\ call.channel \in channel_list
        /\ call.function \in Measurement)
        => /\ ~ret.raised
           /\ written[Len(written)].cmd = ":MEAS:?"
           /\ written[Len(written)].arg = call.function.v
           /\ ret.value = strip(call.reply)

\* The trig_holdoff setter has run
HoldoffDone == pc = "done" /\ call.op = "trig_holdoff"

\* The hold time of the finished call, as a decimal
HoldValue == FromSci(call.hold_time.m, call.hold_time.e)

\* 100e-9 <= float(h) <= 10
InHoldInterval == Le(FromSci(1, 3), HoldValue) /\ Le(HoldValue, FromSci(1, 11))

\* C21: the trig_holdoff setter accepts a hold time h, number or numeric
\* string, exactly when 100e-9 <= float(h) <= 10 and then sends
\* ':TRIG:SING:HOLD <float(h)>'; for every h outside the closed interval it
\* raises ValueError and sends no command.
C21_HoldoffClosedInterval ==
    HoldoffDone
        => IF InHoldInterval
           THEN /\ ~ret.raised
                /\ Len(written) = 1
                /\ written[1].cmd = ":TRIG:SING:HOLD"
                /\ written[1].value = HoldValue
           ELSE /\ ret.raised
                /\ ret.exc = "ValueError"
                /\ written = <<>>

\* C21 witness: the numeric string '100e-9', the lower end, was accepted
C21_Witness ==
    /\ HoldoffDone
    /\ call.hold_time = [t |-> "str", m |-> 100, e |-> 1]
    /\ Len(written) = 1

\* C21 witness of the rejection: 10.001 seconds raised
C21_WitnessRejected ==
    /\ HoldoffDone
    /\ call.hold_time.m = 10001
    /\ ret.raised

\* capture has run, whether it returned or raised
CaptureDone == pc = "done" /\ call.op = "capture"

\* The commands of the waveform transfer among those written, in order
RECURSIVE Transfer(_)
Transfer(log) ==
    IF log = <<>> THEN <<>>
    ELSE IF Head(log).cmd \in {":WAV:BEG", "WAV:RANG 0,1000", ":WAV:FETC?",
                               ":WAV:END"}
    THEN <<Head(log).cmd>> \o Transfer(Tail(log))
    ELSE Transfer(Tail(log))

\* C24: on a valid channel capture sends ':WAV:BEG CH<n>', 'WAV:RANG
\* 0,1000', the ':WAV:FETC?' query and ':WAV:END' in that order, and every
\* capture that has sent ':WAV:BEG' has sent ':WAV:END' when control is
\* back at the caller, whether the fetch returned data or raised.
C24_CaptureBracketsTransfer ==
    CaptureDone
        => /\ call.channel \in channel_list
                => /\ Transfer(written) = <<":WAV:BEG", "WAV:RANG 0,1000",
                                            ":WAV:FETC?", ":WAV:END">>
                   /\ \E i \in 1..Len(written) :
                         /\ written[i].cmd = ":WAV:BEG"
                         /\ written[i].channel = call.channel
           /\ \A i \in 1..Len(written) :
                 written[i].cmd = ":WAV:BEG"
                    => \E j \in (i + 1)..Len(written) :
                          written[j].cmd = ":WAV:END"

\* The messages that only read from the instrument
Queries == {":HORI:SCAL?", ":CH:SCAL?", ":CH:OFFS?", ":WAV:FETC?", ":MEAS:?"}

\* The finished operation raised because an argument was invalid (a failed
\* fetch is an error of the transport, not of an argument)
RejectedArgument ==
    /\ pc = "done"
    /\ ret.raised
    /\ call.op \in {"set_scale", "capture", "set_coupling", "trig_mode",
                    "trig_holdoff", "trig_source", "trig_coupling",
                    "memory_depth", "precision", "time_measurement", "measure"}
    /\ call.op = "capture" => call.channel \notin channel_list

\* C25: every driver operation that raises because an argument is invalid
\* has written no command to the instrument before raising; measure with a
\* valid channel and an unsupported function leaves the measurement source
\* and the measurement display untouched.
C25_RejectionWritesNothing ==
    RejectedArgument
        => \A i \in 1..Len(written) : written[i].cmd \in Queries

\* What the call of thread t returns when it runs alone
Alone(t) ==
    LET c == frames[t].args
    IN  IF c.op = "calc_valid_inputs"
        THEN calc_valid_inputs(c.MIN, c.MAX, c.MANTISSA)
        ELSE get_closest_value(c.input_value, c.MIN, c.MAX, c.MANTISSA)

\* C22: when several threads run calc_valid_inputs and get_closest_value
\* concurrently, under every interleaving each invocation returns what it
\* returns when run alone, and no two invocations use the same list: none
\* writes state another reads.
C22_ConcurrentCallsIndependent ==
    /\ \A t \in Threads : frames[t].pc = "done" => frames[t].result = Alone(t)
    /\ \A t, u \in Threads :
          (t # u /\ frames[t].list # 0 /\ frames[u].list # 0)
              => frames[t].list # frames[u].list

\* C22 witness: thread 1 has finished a get_closest_value whose for loop ran
\* while thread 2 was inside the while loop of another call with values in
\* its list
C22_Witness ==
    /\ frames[1].pc = "done"
    /\ frames[1].op = "get_closest_value"
    /\ frames[1].result.scanned = 3
    /\ frames[2].pc = "while"
    /\ Len(heap[frames[2].list].items) = 2

\* C26: the loop of calc_valid_inputs is left after finitely many
\* iterations, for every min > 0 whose leading digit is a mantissa, every
\* max and every mantissa set of positive integers drawn.
C26_LoopTerminates == (frames[1].pc = "while") ~> (frames[1].pc # "while")

\* C26 witness: a loop over a single mantissa has wrapped more than once,
\* so its exponent is above the exponent of the minimum, and is about to be
\* left
C26_Witness ==
    /\ frames[1].pc = "while"
    /\ frames[1].args.MANTISSA = <<1>>
    /\ frames[1].st.exponent > SciExp(frames[1].args.MIN) + 1
    /\ ~Le(frames[1].st.value, frames[1].args.MAX)

\* The channel the instrument measures when message k arrives: the channel
\* of the last ':MEAS:SOUR' before it, 0 when there is none
RECURSIVE SourceAt(_)
SourceAt(k) ==
    IF k = 1 THEN 0
    ELSE IF written[k - 1].cmd = ":MEAS:SOUR" THEN written[k - 1].channel
    ELSE SourceAt(k - 1)

\* C23: when two callers invoke measure (or capture) on different channels
\* of one driver object concurrently, the messages of one call are never
\* interleaved with the other's, so every ':MEAS:<F>?' query arrives while
\* the measurement source is the channel its own call selected.
C23_CallsNotInterleaved ==
    /\ \A i, j, k \in 1..Len(written) :
          (i < j /\ j < k /\ written[i].by = written[k].by)
              => written[j].by = written[i].by
    /\ \A k \in 1..Len(written) :
          written[k].cmd = ":MEAS:?"
              => SourceAt(k) = frames[written[k].by].args.channel

====
